---------------------------- MODULE Spec2Model ----------------------------
(***************************************************************************)
(* State-machine model of p5sprite (src/src/p5sprite.js): the module-level *)
(* state (three registries, background, frame-callback slot, the p5        *)
(* instance), the Sprite / TextBox / InputBox classes, the public API and  *)
(* the frame driver sk.draw.                                               *)
(*                                                                         *)
(* JavaScript runs every handler to completion on one thread, so each      *)
(* handler (an API call made by the page's script, a p5 frame) is one      *)
(* action.  API functions are operators from a world record to a world     *)
(* record, so that a frame callback, which calls the API from inside       *)
(* sk.draw, is the composition of the same operators.                      *)
(*                                                                         *)
(* Numbers.  Coordinates, sizes, layers and radii are integers.  A scale   *)
(* factor is a rational [n, d]; image sizes are chosen so that             *)
(* width * n / d is an integer.                                            *)
(***************************************************************************)
EXTENDS Integers, Sequences, FiniteSets, TLC

VARIABLES
    sprites,         \* const sprites = []        (line 25)
    textBoxes,       \* const textBoxes = []      (line 27)
    inputBoxes,      \* const inputBoxes = []     (line 29)
    backdropImage,   \* let backdropImage = null  (line 32)
    bgColor,         \* let bgColor = null        (line 34)
    gameLoop,        \* let gameLoop = null       (line 36)
    sketchInstance,  \* let sketchInstance        (line 38, 441): the p5 instance
    keyState,        \* const keyState = {...}    (line 41)
    frameLog,        \* observation: the calls sk.draw made, in order, when the
                     \* handler that just ran was a frame; << >> after any other
    touchResult,     \* observation: what a.touched(b) returned, when the handler
                     \* that just ran was that call
    hist             \* history of the API calls made so far (what the claims speak of)

vars == <<sprites, textBoxes, inputBoxes, backdropImage, bgColor, gameLoop,
          sketchInstance, keyState, frameLog, touchResult, hist>>

(***************************************************************************)
(* Bounds of the model.                                                    *)
(***************************************************************************)
MaxSprites == 2
MaxTextBoxes == 2
MaxInputBoxes == 2
MaxFrames == 3
MaxTicks == 360

(***************************************************************************)
(* JavaScript values and arithmetic.                                       *)
(***************************************************************************)
\* Every JS value carries its type: a string is [t |-> "string", s |-> <<characters>>],
\* a number [t |-> "number", n |-> integer], a function [t |-> "function", name |-> ...],
\* an image [t |-> "image", ...]; null is [t |-> "null"].
Str(chars) == [t |-> "string", s |-> chars]
Num(n) == [t |-> "number", n |-> n]
Fn(name) == [t |-> "function", name |-> name]
JsNull == [t |-> "null"]

\* if (v) for a value that is null or an object.
Truthy(v) == v.t # "null"

\* a % b of JavaScript for integers a and b > 0: the remainder of the division
\* truncated towards zero, so the sign of the result is that of a.
JsRem(a, b) == IF a >= 0 THEN a % b ELSE 0 - ((0 - a) % b)

\* Mutant of Coalesce: a || b, which also skips a falsy a such as 0.
CoalesceFalsy(a, b) == IF a.t = "null" \/ (a.t = "number" /\ a.n = 0) THEN b ELSE a

\* a ?? b: b only when a is null (or undefined).
Coalesce(a, b) == IF a.t = "null" THEN b ELSE a

\* The i flag of a regular expression: letters compare by their lower case.
LowerCase(c) ==
    CASE c = "P" -> "p" [] c = "N" -> "n" [] c = "G" -> "g" [] c = "J" -> "j"
      [] c = "E" -> "e" [] c = "I" -> "i" [] c = "F" -> "f" [] c = "B" -> "b"
      [] c = "M" -> "m" [] c = "W" -> "w" [] c = "A" -> "a"
      [] OTHER -> c

ToLower(s) == [i \in 1..Len(s) |-> LowerCase(s[i])]

\* The alternatives of /\.(png|jpe?g|gif|bmp|webp)$/i.
ImageExtensions ==
    { <<"p", "n", "g">>, <<"j", "p", "g">>, <<"j", "p", "e", "g">>,
      <<"g", "i", "f">>, <<"b", "m", "p">>, <<"w", "e", "b", "p">> }

EndsWith(s, suffix) ==
    /\ Len(s) >= Len(suffix)
    /\ SubSeq(s, Len(s) - Len(suffix) + 1, Len(s)) = suffix

\* typeof val === 'string' && /\.(png|jpe?g|gif|bmp|webp)$/i.test(val)
IsImagePath(val) ==
    /\ val.t = "string"
    /\ \E ext \in ImageExtensions : EndsWith(ToLower(val.s), <<".">> \o ext)

(***************************************************************************)
(* p5 images.  loadImage(path) returns an image object at once; its        *)
(* natural size is that of the file.                                       *)
(***************************************************************************)
ImageWidth(path) ==
    CASE path = "koding.png" -> 120 [] path = "walk.png" -> 60 [] OTHER -> 40

ImageHeight(path) ==
    CASE path = "koding.png" -> 80 [] path = "walk.png" -> 20 [] OTHER -> 40

loadImage(path) ==
    [t |-> "image", src |-> path, width |-> ImageWidth(path), height |-> ImageHeight(path)]

(***************************************************************************)
(* Sprite class (lines 50-144).  id is the object's identity: its place in *)
(* creation order.                                                         *)
(***************************************************************************)
DefaultDirection == 90
DefaultHitRadius == 40

\* constructor(imgPaths)
Sprite(id, imgPaths) ==
    [ id            |-> id,
      x             |-> 0,
      y             |-> 0,
      direction     |-> DefaultDirection,
      rotationStyle |-> "free",
      costumeId     |-> 0,
      hidden        |-> FALSE,
      layer         |-> 0,
      images        |-> [i \in 1..Len(imgPaths) |-> loadImage(imgPaths[i])],
      hitRadius     |-> DefaultHitRadius,
      scale         |-> [n |-> 1, d |-> 1],
      w             |-> JsNull,
      h             |-> JsNull ]

\* moveTo(x, y) { this.x = x; this.y = y; }
SpriteMoveTo(s, x, y) == [s EXCEPT !.x = x, !.y = y]

\* cos and sin of a heading that is a multiple of 90 degrees.
Cos90(direction) ==
    LET d == JsRem(JsRem(direction, 360) + 360, 360)
    IN  IF d = 0 THEN 1 ELSE IF d = 180 THEN -1 ELSE 0

Sin90(direction) ==
    LET d == JsRem(JsRem(direction, 360) + 360, 360)
    IN  IF d = 90 THEN 1 ELSE IF d = 270 THEN -1 ELSE 0

\* Mutant of stepForward: the heading is brought back into [0, 360).
stepForwardNormalised(s, pixels) ==
    [s EXCEPT !.x = @ + Cos90(s.direction) * pixels,
              !.y = @ + Sin90(s.direction) * pixels,
              !.direction = JsRem(JsRem(@, 360) + 360, 360)]

\* stepForward(pixels), lines 92-96, for headings that are multiples of 90.
stepForward(s, pixels) ==
    [s EXCEPT !.x = @ + Cos90(s.direction) * pixels,
              !.y = @ + Sin90(s.direction) * pixels]

\* setScale(s) { this.scale = s; }
setScale(s, factor) == [s EXCEPT !.scale = factor]

\* setSize(w, h) { this.w = w; this.h = h; }
setSize(s, w, h) == [s EXCEPT !.w = w, !.h = h]

\* The largest r with r * r <= n.
RECURSIVE FloorSqrtFrom(_, _)
FloorSqrtFrom(n, r) == IF (r + 1) * (r + 1) > n THEN r ELSE FloorSqrtFrom(n, r + 1)

\* sketchInstance.dist(x1, y1, x2, y2) = sqrt(dx^2 + dy^2), kept as the integer
\* part of the root and whether the root is exact.  For an integer R,
\* dist < R iff floor(dist) < R, and dist <= R iff floor(dist) < R or
\* (floor(dist) = R and the root is exact).
dist(x1, y1, x2, y2) ==
    LET sq == (x1 - x2) * (x1 - x2) + (y1 - y2) * (y1 - y2)
        r  == FloorSqrtFrom(sq, 0)
    IN  [floor |-> r, exact |-> (r * r = sq)]

\* Mutant of touched: the comparison <= in place of <.
touchedClosed(this, other) ==
    LET dd == dist(this.x, this.y, other.x, other.y)
        R  == this.hitRadius + other.hitRadius
    IN  dd.floor < R \/ (dd.floor = R /\ dd.exact)

\* Mutant of touched: twice the receiver's radius in place of the sum.
touchedOwnRadius(this, other) ==
    dist(this.x, this.y, other.x, other.y).floor < this.hitRadius + this.hitRadius

\* touched(other): dist(this.x, this.y, other.x, other.y) < this.hitRadius + other.hitRadius
touched(this, other) ==
    dist(this.x, this.y, other.x, other.y).floor < this.hitRadius + other.hitRadius

\* this.images[this.costumeId % this.images.length]: the 1-based place of the
\* selected costume in images, or 0 when the index names no element and the
\* expression is undefined (a negative remainder; NaN, from x % 0).
SelectCostume(this) ==
    LET N == Len(this.images)
        i == JsRem(this.costumeId, N)
    IN  IF N = 0 THEN 0
        ELSE IF i >= 0 /\ i < N THEN i + 1 ELSE 0

\* Mutant of Heading360: the heading reduced with one % only.
Heading360Single(direction) == JsRem(direction, 360)

\* ((this.direction % 360) + 360) % 360
Heading360(direction) == JsRem(JsRem(direction, 360) + 360, 360)

\* Lines 133-135: whether _draw calls scale(-1, 1).
Mirrors(this) ==
    /\ this.rotationStyle = "flipped"
    /\ Heading360(this.direction) > 90
    /\ Heading360(this.direction) < 270

\* img.width * this.scale and img.height * this.scale
Scaled(len, scale) == (len * scale.n) \div scale.d

\* _draw(): the record of one call.  painted is whether image() was called;
\* when it was, costume is the place of the image in images, rotate the
\* angle given to rotate() (NoRotate when it was not called), mirror whether
\* scale(-1, 1) was called, and dw, dh the size given to image().
NoRotate == [t |-> "null"]

SpriteDraw(this) ==
    LET c   == SelectCostume(this)
        img == this.images[c]
        skipped == [op |-> "sprite", id |-> this.id, layer |-> this.layer,
                    painted |-> FALSE, costume |-> 0, x |-> this.x, y |-> this.y,
                    rotate |-> NoRotate, mirror |-> FALSE, dw |-> 0, dh |-> 0]
    IN  IF this.hidden THEN skipped
        ELSE IF c = 0 THEN skipped
        ELSE [op |-> "sprite", id |-> this.id, layer |-> this.layer,
              painted |-> TRUE, costume |-> c, x |-> this.x, y |-> this.y,
              rotate |-> IF this.rotationStyle = "free"
                         THEN Num(this.direction) ELSE NoRotate,
              mirror |-> Mirrors(this),
              dw |-> Coalesce(this.w, Num(Scaled(img.width, this.scale))).n,
              dh |-> Coalesce(this.h, Num(Scaled(img.height, this.scale))).n]

(***************************************************************************)
(* TextBox class (lines 153-190).                                          *)
(***************************************************************************)
\* constructor(x, y, txt, color = '#fff', size = 24, font = 'sans-serif')
TextBox(id, x, y, txt) ==
    [ id |-> id, x |-> x, y |-> y, text |-> txt, color |-> "#fff", size |-> 24,
      font |-> "sans-serif", hidden |-> FALSE, layer |-> 0 ]

\* setText(t) { this.text = t; }
setText(tb, t) == [tb EXCEPT !.text = t]

\* _draw(): the record of one call; painted is whether text() was called.
TextBoxDraw(this) ==
    [op |-> "text", id |-> this.id, layer |-> this.layer, painted |-> ~this.hidden]

(***************************************************************************)
(* InputBox class (lines 199-283).  el is the style of the DOM element:    *)
(* left, top, width and height in px, or Unset while never assigned.       *)
(***************************************************************************)
Unset == [t |-> "null"]

\* `${n}px`: the number with its unit.
Px(n) == [t |-> "px", n |-> n]

\* _recalc(ib), lines 276-283.  canvas is sketchInstance.canvas: JsNull until
\* setup has created it, then its bounding rectangle.  Widths and heights
\* are even, so that w / 2 is the integer w \div 2.
Recalc(ib, sk) ==
    IF ~Truthy(sk) \/ ~Truthy(sk.canvas) THEN ib
    ELSE [ib EXCEPT !.el = [ left   |-> Px(sk.canvas.left + ib.cx - ib.w \div 2),
                             top    |-> Px(sk.canvas.top + ib.cy - ib.h \div 2),
                             width  |-> Px(ib.w),
                             height |-> Px(ib.h) ]]

\* constructor(x, y, w, h, placeholder = '', layer = 0), lines 208-239
InputBox(id, x, y, w, h, layer, sk) ==
    Recalc([ id |-> id, layer |-> layer, value |-> "",
             el |-> [left |-> Unset, top |-> Unset, width |-> Unset, height |-> Unset],
             cx |-> x, cy |-> y, w |-> w, h |-> h ], sk)

\* Mutant of InputMoveTo: nothing is stored while there is no canvas.
InputMoveToNeedsCanvas(ib, x, y, sk) ==
    IF ~Truthy(sk) \/ ~Truthy(sk.canvas) THEN ib
    ELSE Recalc([ib EXCEPT !.cx = x, !.cy = y], sk)

\* moveTo(x, y) { this._cx = x; this._cy = y; _recalc(this); }
InputMoveTo(ib, x, y, sk) == Recalc([ib EXCEPT !.cx = x, !.cy = y], sk)

\* resize(w, h) { this._w = w; this._h = h; _recalc(this); }
InputResize(ib, w, h, sk) == Recalc([ib EXCEPT !.w = w, !.h = h], sk)

\* Mutant of Sync: the frame leaves the element where it is.
SyncNothing(ib, sk) == ib

\* _sync() { _recalc(this); }
Sync(ib, sk) == Recalc(ib, sk)

(***************************************************************************)
(* The world: the module-level state as one record, so that the API        *)
(* functions compose.  hist is carried along and written only by the       *)
(* Call... wrappers below, never by the operators that model code.         *)
(***************************************************************************)
World ==
    [ sprites |-> sprites, textBoxes |-> textBoxes, inputBoxes |-> inputBoxes,
      backdropImage |-> backdropImage, bgColor |-> bgColor, gameLoop |-> gameLoop,
      sketchInstance |-> sketchInstance, hist |-> hist ]

NoCall == [t |-> "none"]

\* Mutant of setBackground: the other variant is not cleared.
setBackgroundKeepOther(w, val) ==
    IF IsImagePath(val)
    THEN [w EXCEPT !.backdropImage = loadImage(val.s)]
    ELSE [w EXCEPT !.bgColor = val]

\* setBackground(val), lines 352-360
setBackground(w, val) ==
    IF IsImagePath(val)
    THEN [w EXCEPT !.backdropImage = loadImage(val.s), !.bgColor = JsNull]
    ELSE [w EXCEPT !.bgColor = val, !.backdropImage = JsNull]

\* createSprite(x, y, ...imgPaths), lines 372-382
createSprite(w, x, y, imgPaths) ==
    [w EXCEPT !.sprites =
        Append(@, SpriteMoveTo(Sprite(Len(w.sprites) + 1, imgPaths), x, y))]

\* createTextBox(x, y, txt), lines 388-392
createTextBox(w, x, y, txt) ==
    [w EXCEPT !.textBoxes = Append(@, TextBox(Len(w.textBoxes) + 1, x, y, txt))]

\* createInputBox(x, y, w, h, placeholder, layer), lines 398-402
createInputBox(w, x, y, wd, ht, layer) ==
    [w EXCEPT !.inputBoxes =
        Append(@, InputBox(Len(w.inputBoxes) + 1, x, y, wd, ht, layer, w.sketchInstance))]

\* Mutant of forever: a second registration does not replace the first.
foreverKeepFirst(w, fn) ==
    IF Truthy(w.gameLoop) THEN w ELSE [w EXCEPT !.gameLoop = fn]

\* function forever(fn) { gameLoop = fn; }
forever(w, fn) == [w EXCEPT !.gameLoop = fn]

\* Mutant of stop: the guard inverted, so noLoop() is never called.
stopGuardInverted(w) ==
    IF ~Truthy(w.sketchInstance) THEN [w EXCEPT !.sketchInstance.looping = FALSE] ELSE w

\* function stop() { if (sketchInstance) sketchInstance.noLoop(); }
\* p5's noLoop() clears the flag its frame scheduler reads after each frame.
stop(w) ==
    IF Truthy(w.sketchInstance) THEN [w EXCEPT !.sketchInstance.looping = FALSE] ELSE w

(***************************************************************************)
(* API calls as the page's script makes them: the call, and the record of  *)
(* it in hist.                                                             *)
(***************************************************************************)
CallSetBackground(w, val) == [setBackground(w, val) EXCEPT !.hist.background = val]

CallCreateSprite(w, x, y, imgPaths) ==
    [createSprite(w, x, y, imgPaths) EXCEPT
        !.hist.sizes = Append(@, NoCall),
        !.hist.heading = Append(@, [base |-> 90, ticks |-> 0])]

\* A call on an input box finds no canvas yet.
Early(sk) == ~(Truthy(sk) /\ Truthy(sk.canvas))

CallCreateInputBox(w, x, y, wd, ht, layer) ==
    [createInputBox(w, x, y, wd, ht, layer) EXCEPT
        !.hist.geom = Append(@, [cx |-> x, cy |-> y, w |-> wd, h |-> ht,
                                 early |-> FALSE])]

CallForever(w, fn) == [forever(w, fn) EXCEPT !.hist.registered = fn]

CallStop(w) == [stop(w) EXCEPT !.hist.stopCalled = TRUE]

(***************************************************************************)
(* Frame callbacks: the functions the page's script passes to forever.     *)
(* "spin" is the demo's callback; the others call the API from inside the  *)
(* frame.                                                                  *)
(***************************************************************************)
\* logo.direction += 1; label.setText(box.value);   with logo, label and box
\* the first sprite, text box and input box the script created.
Spin(w) ==
    LET w1 == IF Len(w.sprites) >= 1
              THEN [w EXCEPT !.sprites[1].direction = @ + 1] ELSE w
    IN  IF Len(w1.textBoxes) >= 1 /\ Len(w1.inputBoxes) >= 1
        THEN [w1 EXCEPT !.textBoxes[1] = setText(@, w1.inputBoxes[1].value)]
        ELSE w1

\* The callback has added 1 to the heading of the first sprite once more.
CallSpin(w) ==
    IF Len(w.sprites) >= 1
    THEN [Spin(w) EXCEPT !.hist.heading[1].ticks = @ + 1]
    ELSE Spin(w)

\* createTextBox(100, 50, ''); createInputBox(600, 720, 400, 32);
Populate(w) ==
    CallCreateInputBox(createTextBox(w, 100, 50, ""), 600, 720, 400, 32, 0)

\* The first sprite goes to the other layer, takes its next costume and moves
\* 10 px right; the first text box and input box go to the other layer.
Restyle(w) ==
    LET w1 == IF Len(w.sprites) >= 1
              THEN [w EXCEPT !.sprites[1].layer = 1 - @,
                             !.sprites[1].costumeId = @ + 1,
                             !.sprites[1] = SpriteMoveTo(@, w.sprites[1].x + 10, w.sprites[1].y)]
              ELSE w
        w2 == IF Len(w1.textBoxes) >= 1
              THEN [w1 EXCEPT !.textBoxes[1].layer = 1 - @] ELSE w1
    IN  IF Len(w2.inputBoxes) >= 1
        THEN [w2 EXCEPT !.inputBoxes[1].layer = 1 - @] ELSE w2

\* The first sprite and the first text box are hidden, or shown again.
Hide(w) ==
    LET w1 == IF Len(w.sprites) >= 1
              THEN [w EXCEPT !.sprites[1].hidden = ~@] ELSE w
    IN  IF Len(w1.textBoxes) >= 1
        THEN [w1 EXCEPT !.textBoxes[1].hidden = ~@] ELSE w1

RunCallback(name, w) ==
    CASE name = "spin"  -> CallSpin(w)
      [] name = "halt"  -> CallStop(w)
      [] name = "swap"  -> CallForever(w, Fn("spin"))
      [] name = "spawn" -> CallCreateSprite(w, 0, 0, <<"walk.png">>)
      [] name = "populate" -> Populate(w)
      [] name = "restyle"  -> Restyle(w)
      [] name = "hide"     -> Hide(w)

\* What the callback needs of the bounds of the model to run.
CallbackFits(w) ==
    /\ (Truthy(w.gameLoop) /\ w.gameLoop.name = "spawn") => Len(w.sprites) < MaxSprites
    /\ (Truthy(w.gameLoop) /\ w.gameLoop.name = "populate") =>
           Len(w.textBoxes) < MaxTextBoxes /\ Len(w.inputBoxes) < MaxInputBoxes

(***************************************************************************)
(* The frame driver sk.draw, lines 449-459.                                *)
(***************************************************************************)
\* Mutant of InsertByLayer: the element goes before its equals.
InsertByLayerBeforeEquals(sorted, e) ==
    LET k == Cardinality({i \in 1..Len(sorted) : sorted[i].layer < e.layer})
    IN  SubSeq(sorted, 1, k) \o <<e>> \o SubSeq(sorted, k + 1, Len(sorted))

\* One step of a stable sort with (a, b) => a.layer - b.layer: e goes after
\* every element whose layer is not greater.
InsertByLayer(sorted, e) ==
    LET k == Cardinality({i \in 1..Len(sorted) : sorted[i].layer <= e.layer})
    IN  SubSeq(sorted, 1, k) \o <<e>> \o SubSeq(sorted, k + 1, Len(sorted))

\* registry.slice().sort((a, b) => a.layer - b.layer): a sorted copy; the sort
\* of Array.prototype.sort is stable.
RECURSIVE SortByLayer(_)
SortByLayer(registry) ==
    IF registry = <<>> THEN <<>>
    ELSE InsertByLayer(SortByLayer(SubSeq(registry, 1, Len(registry) - 1)),
                       registry[Len(registry)])

\* Line 450.
ClearEntry == [op |-> "clear"]

\* Lines 451-452.
BackgroundEntry(w) ==
    IF Truthy(w.backdropImage) THEN [op |-> "background", kind |-> "image", arg |-> w.backdropImage]
    ELSE IF w.bgColor.t # "null" THEN [op |-> "background", kind |-> "color", arg |-> w.bgColor]
    ELSE [op |-> "background", kind |-> "default", arg |-> Num(30)]

\* Line 454: if (gameLoop) gameLoop();
CallbackEntries(w) ==
    IF Truthy(w.gameLoop) THEN << [op |-> "callback", fn |-> w.gameLoop] >> ELSE << >>

AfterCallback(w) ==
    IF Truthy(w.gameLoop) THEN RunCallback(w.gameLoop.name, w) ELSE w

\* Lines 456-458, each over the registry as the callback left it.
SpriteEntries(w) ==
    LET sorted == SortByLayer(w.sprites)
    IN  [i \in 1..Len(sorted) |-> SpriteDraw(sorted[i])]

TextEntries(w) ==
    LET sorted == SortByLayer(w.textBoxes)
    IN  [i \in 1..Len(sorted) |-> TextBoxDraw(sorted[i])]

InputEntries(w) ==
    LET sorted == SortByLayer(w.inputBoxes)
    IN  [i \in 1..Len(sorted) |->
            [op |-> "input", id |-> sorted[i].id, layer |-> sorted[i].layer]]

SyncAll(w) ==
    [w EXCEPT !.inputBoxes =
        [i \in 1..Len(w.inputBoxes) |-> Sync(w.inputBoxes[i], w.sketchInstance)]]

\* Mutant of draw: each group is drawn from a copy of its registry taken
\* before the callback runs.
drawStaleSnapshot(w) ==
    [ world |-> SyncAll(AfterCallback(w)),
      log   |-> <<ClearEntry, BackgroundEntry(w)>> \o CallbackEntries(w)
                \o SpriteEntries(w) \o TextEntries(w) \o InputEntries(w) ]

\* Mutant of draw: the registries are drawn before the callback runs.
drawBeforeCallback(w) ==
    [ world |-> SyncAll(AfterCallback(w)),
      log   |-> <<ClearEntry, BackgroundEntry(w)>> \o SpriteEntries(w)
                \o CallbackEntries(w) \o TextEntries(AfterCallback(w))
                \o InputEntries(AfterCallback(w)) ]

\* sk.draw: the world it leaves and the calls it made, in order.
draw(w) ==
    [ world |-> SyncAll(AfterCallback(w)),
      log   |-> <<ClearEntry, BackgroundEntry(w)>> \o CallbackEntries(w)
                \o SpriteEntries(AfterCallback(w)) \o TextEntries(AfterCallback(w))
                \o InputEntries(AfterCallback(w)) ]

(***************************************************************************)
(* The p5 instance, lines 441-463.  p5 runs setup once, then one frame     *)
(* whatever the loop flag says, and after each frame asks for the next     *)
(* only while the flag is set (noLoop() clears it).  Each frame adds one   *)
(* to frameCount before it calls draw.  p5 starts when the page has        *)
(* loaded, after the page's script has run: the script's calls made        *)
(* before that find sketchInstance assigned and no canvas yet.             *)
(***************************************************************************)
NewSketch ==
    [t |-> "p5", canvas |-> JsNull, setupDone |-> FALSE, looping |-> TRUE,
     frameCount |-> 0]

\* sk.setup, lines 442-447: createCanvas(...).position(left, top).
setup(w, left, top) ==
    [w EXCEPT !.sketchInstance.canvas = [t |-> "canvas", left |-> left, top |-> top],
              !.sketchInstance.setupDone = TRUE]

redraw(w) == draw([w EXCEPT !.sketchInstance.frameCount = @ + 1])

(***************************************************************************)
(* Keyboard helper, lines 428-436.  The key codes are p5's constants.      *)
(***************************************************************************)
LEFT_ARROW == 37

UP_ARROW == 38

RIGHT_ARROW == 39

DOWN_ARROW == 40

SPACE == 32

\* sk.keyCode: the five keys and two others (Enter, A).
KeyCodes == {LEFT_ARROW, UP_ARROW, RIGHT_ARROW, DOWN_ARROW, SPACE, 13, 65}

\* Mutant of upd: the switch without its break statements.
updFallThrough(ks, code, on) ==
    LET cases == <<LEFT_ARROW, RIGHT_ARROW, UP_ARROW, DOWN_ARROW, SPACE>>
        flags == <<"left", "right", "up", "down", "space">>
        from  == IF \E p \in 1..5 : cases[p] = code
                 THEN CHOOSE p \in 1..5 : cases[p] = code
                 ELSE 6
    IN  [f \in DOMAIN ks |->
            IF \E p \in from..5 : flags[p] = f THEN on ELSE ks[f]]

\* function _upd(code, on) { switch (code) { ... } }
upd(ks, code, on) ==
    CASE code = LEFT_ARROW  -> [ks EXCEPT !.left  = on]
      [] code = RIGHT_ARROW -> [ks EXCEPT !.right = on]
      [] code = UP_ARROW    -> [ks EXCEPT !.up    = on]
      [] code = DOWN_ARROW  -> [ks EXCEPT !.down  = on]
      [] code = SPACE       -> [ks EXCEPT !.space = on]
      [] OTHER              -> ks

Commit(w) ==
    /\ sprites' = w.sprites
    /\ textBoxes' = w.textBoxes
    /\ inputBoxes' = w.inputBoxes
    /\ backdropImage' = w.backdropImage
    /\ bgColor' = w.bgColor
    /\ gameLoop' = w.gameLoop
    /\ sketchInstance' = w.sketchInstance
    /\ hist' = w.hist
    /\ keyState' = keyState      \* written by _upd alone

\* An API call from the page's script, outside any frame.
Script(w) ==
    /\ Commit(w)
    /\ frameLog' = << >>
    /\ touchResult' = NoCall

Init ==
    /\ sprites = << >>
    /\ textBoxes = << >>
    /\ inputBoxes = << >>
    /\ backdropImage = JsNull
    /\ bgColor = JsNull
    /\ gameLoop = JsNull
    /\ sketchInstance = NewSketch
    /\ frameLog = << >>
    /\ touchResult = NoCall
    /\ hist = [stopCalled |-> FALSE, registered |-> JsNull, background |-> NoCall,
               sizes |-> << >>, geom |-> << >>, heading |-> << >>,
               lastKey |-> [c \in KeyCodes |-> "none"]]
    /\ keyState = [left |-> FALSE, right |-> FALSE, up |-> FALSE,
                   down |-> FALSE, space |-> FALSE]

\* The page has loaded: setup, then the first frame.
Start(left, top) ==
    /\ ~sketchInstance.setupDone
    /\ CallbackFits(World)
    /\ LET f == redraw(setup(World, left, top))
       IN  Commit(f.world) /\ frameLog' = f.log
    /\ touchResult' = NoCall

\* A later frame.
TickUpTo(frames) ==
    /\ sketchInstance.setupDone
    /\ sketchInstance.looping
    /\ sketchInstance.frameCount < frames
    /\ CallbackFits(World)
    /\ LET f == redraw(World)
       IN  Commit(f.world) /\ frameLog' = f.log
    /\ touchResult' = NoCall

Tick == TickUpTo(MaxFrames)

Stop == Script(CallStop(World))

Forever(name) == Script(CallForever(World, Fn(name)))

SetBackground(val) == Script(CallSetBackground(World, val))

CreateSprite(x, y, imgPaths) ==
    /\ Len(sprites) < MaxSprites
    /\ Script(CallCreateSprite(World, x, y, imgPaths))

CreateTextBox(x, y, txt) ==
    /\ Len(textBoxes) < MaxTextBoxes
    /\ Script(createTextBox(World, x, y, txt))

CreateInputBox(x, y, wd, ht, layer) ==
    /\ Len(inputBoxes) < MaxInputBoxes
    /\ Script(CallCreateInputBox(World, x, y, wd, ht, layer))

(***************************************************************************)
(* Spec: the frame driver with the page's script calling forever, stop,    *)
(* setBackground and the factories in any order, before and after the      *)
(* first frame.                                                            *)
(***************************************************************************)
CallbackNames == {"spin", "halt", "swap", "spawn"}

BackgroundValues ==
    { Str(<<"a", ".", "p", "n", "g">>),
      Str(<<"b", ".", "J", "P", "G">>),
      Str(<<"c", ".", "j", "p", "e", "g">>),
      Str(<<"d", ".", "W", "e", "b", "P">>),
      Str(<<"#", "2", "2", "2">>),
      Str(<<"p", "n", "g">>),
      Str(<<"e", ".", "p", "n", "g", "s">>),
      Num(30),
      JsNull }

\* One image path and one colour, the demo's.
BackgroundSamples == { Str(<<"a", ".", "p", "n", "g">>), Str(<<"#", "2", "2", "2">>) }

Next ==
    \/ Start(0, 0)
    \/ Tick
    \/ Stop
    \/ \E name \in CallbackNames : Forever(name)
    \/ \E val \in BackgroundSamples : SetBackground(val)
    \/ CreateSprite(600, 450, <<"koding.png">>)
    \/ CreateTextBox(600, 120, "Type below")
    \/ CreateInputBox(600, 720, 400, 32, 0)

Spec == Init /\ [][Next]_vars

(***************************************************************************)
(* The page's script writing the public fields and calling the methods of  *)
(* the objects the factories returned.  i is the object's place in its     *)
(* registry.                                                               *)
(***************************************************************************)
\* s.layer = l   (line 68)
SetSpriteLayer(i, l) ==
    /\ i \in 1..Len(sprites)
    /\ Script([World EXCEPT !.sprites[i].layer = l])

\* tb.layer = l   (line 169)
SetTextBoxLayer(i, l) ==
    /\ i \in 1..Len(textBoxes)
    /\ Script([World EXCEPT !.textBoxes[i].layer = l])

\* ib.layer = l   (line 210)
SetInputBoxLayer(i, l) ==
    /\ i \in 1..Len(inputBoxes)
    /\ Script([World EXCEPT !.inputBoxes[i].layer = l])

\* s.costumeId = c   (line 64)
SetCostume(i, c) ==
    /\ i \in 1..Len(sprites)
    /\ Script([World EXCEPT !.sprites[i].costumeId = c])

\* s.hidden = f   (line 66)
SetHidden(i, f) ==
    /\ i \in 1..Len(sprites)
    /\ Script([World EXCEPT !.sprites[i].hidden = f])

\* s.direction = d   (line 60)
SetDirection(i, d) ==
    /\ i \in 1..Len(sprites)
    /\ Script([World EXCEPT !.sprites[i].direction = d,
                            !.hist.heading[i] = [base |-> d, ticks |-> 0]])

\* s.rotationStyle = style   (line 62)
SetRotationStyle(i, style) ==
    /\ i \in 1..Len(sprites)
    /\ Script([World EXCEPT !.sprites[i].rotationStyle = style])

\* s.hitRadius = r   (line 72)
SetHitRadius(i, r) ==
    /\ i \in 1..Len(sprites)
    /\ Script([World EXCEPT !.sprites[i].hitRadius = r])

\* s.moveTo(x, y)
MoveTo(i, x, y) ==
    /\ i \in 1..Len(sprites)
    /\ Script([World EXCEPT !.sprites[i] = SpriteMoveTo(@, x, y)])

\* s.stepForward(pixels), while the heading is a multiple of 90
StepForward(i, pixels) ==
    /\ i \in 1..Len(sprites)
    /\ JsRem(sprites[i].direction, 90) = 0
    /\ Script([World EXCEPT !.sprites[i] = stepForward(@, pixels)])

\* s.setScale(factor)
SetScale(i, factor) ==
    /\ i \in 1..Len(sprites)
    /\ Script([World EXCEPT !.sprites[i] = setScale(@, factor)])

\* s.setSize(w, h)
SetSize(i, w, h) ==
    /\ i \in 1..Len(sprites)
    /\ Script([World EXCEPT !.sprites[i] = setSize(@, Num(w), Num(h)),
                            !.hist.sizes[i] = [w |-> w, h |-> h]])

\* ib.moveTo(x, y)
MoveInputBox(i, x, y) ==
    /\ i \in 1..Len(inputBoxes)
    /\ Script([World EXCEPT
            !.inputBoxes[i] = InputMoveTo(@, x, y, sketchInstance),
            !.hist.geom[i] = [@ EXCEPT !.cx = x, !.cy = y,
                                !.early = @ \/ Early(sketchInstance)]])

\* ib.resize(w, h)
ResizeInputBox(i, wd, ht) ==
    /\ i \in 1..Len(inputBoxes)
    /\ Script([World EXCEPT
            !.inputBoxes[i] = InputResize(@, wd, ht, sketchInstance),
            !.hist.geom[i] = [@ EXCEPT !.w = wd, !.h = ht,
                                !.early = @ \/ Early(sketchInstance)]])

\* The window is scrolled or resized: canvas.getBoundingClientRect() (line
\* 278) answers another rectangle from now on.  No code of the page runs.
MoveCanvas(left, top) ==
    /\ Truthy(sketchInstance.canvas)
    /\ <<left, top>> # <<sketchInstance.canvas.left, sketchInstance.canvas.top>>
    /\ sketchInstance' = [sketchInstance EXCEPT !.canvas.left = left, !.canvas.top = top]
    /\ frameLog' = << >>
    /\ touchResult' = NoCall
    /\ UNCHANGED <<sprites, textBoxes, inputBoxes, backdropImage, bgColor,
                   gameLoop, keyState, hist>>

\* A key event: p5 sets sk.keyCode and calls the handler, which calls _upd.
KeyEvent(code, on) ==
    /\ keyState' = upd(keyState, code, on)
    /\ hist' = [hist EXCEPT !.lastKey[code] = IF on THEN "down" ELSE "up"]
    /\ frameLog' = << >>
    /\ touchResult' = NoCall
    /\ UNCHANGED <<sprites, textBoxes, inputBoxes, backdropImage, bgColor,
                   gameLoop, sketchInstance>>

\* sk.keyPressed = () => _upd(sk.keyCode, true)
keyPressed(code) == KeyEvent(code, TRUE)

\* sk.keyReleased = () => _upd(sk.keyCode, false)
keyReleased(code) == KeyEvent(code, FALSE)

\* sprites[a].touched(sprites[b])
Touched(a, b) ==
    /\ a \in 1..Len(sprites)
    /\ b \in 1..Len(sprites)
    /\ touchResult' = [t |-> "result", a |-> a, b |-> b,
                       hit |-> touched(sprites[a], sprites[b])]
    /\ frameLog' = << >>
    /\ UNCHANGED <<sprites, textBoxes, inputBoxes, backdropImage, bgColor,
                   gameLoop, sketchInstance, keyState, hist>>

(***************************************************************************)
(* SpecBackground: setBackground with every kind of value, between frames  *)
(* of a driver that may be stopped.                                        *)
(***************************************************************************)
NextBackground ==
    \/ Start(0, 0)
    \/ Tick
    \/ Stop
    \/ \E name \in {"spin", "halt"} : Forever(name)
    \/ \E val \in BackgroundValues : SetBackground(val)

SpecBackground == Init /\ [][NextBackground]_vars

(***************************************************************************)
(* SpecLayers: entities of the three registries change layer between       *)
(* frames.                                                                 *)
(***************************************************************************)
SpriteLayers == {-1, 0, 1}

TextBoxLayers == {0, 1}

InputBoxLayers == {-1, 0}

NextLayers ==
    \/ Start(0, 0)
    \/ Tick
    \/ CreateSprite(600, 450, <<"koding.png">>)
    \/ CreateTextBox(600, 120, "Type below")
    \/ \E l \in InputBoxLayers : CreateInputBox(600, 720, 400, 32, l)
    \/ \E i \in 1..MaxSprites, l \in SpriteLayers : SetSpriteLayer(i, l)
    \/ \E i \in 1..MaxTextBoxes, l \in TextBoxLayers : SetTextBoxLayer(i, l)
    \/ \E i \in 1..MaxInputBoxes, l \in InputBoxLayers : SetInputBoxLayer(i, l)

SpecLayers == Init /\ [][NextLayers]_vars

(***************************************************************************)
(* SpecCostume: sprites with one to three costumes and any costume index.  *)
(***************************************************************************)
CostumeLists ==
    { <<"koding.png">>, <<"koding.png", "walk.png">>,
      <<"koding.png", "walk.png", "jump.png">> }

CostumeIds == -3..4

NextCostume ==
    \/ Start(0, 0)
    \/ Tick
    \/ \E paths \in CostumeLists : CreateSprite(600, 450, paths)
    \/ \E i \in 1..MaxSprites, c \in CostumeIds : SetCostume(i, c)
    \/ \E i \in 1..MaxSprites, f \in BOOLEAN : SetHidden(i, f)

SpecCostume == Init /\ [][NextCostume]_vars

(***************************************************************************)
(* SpecFlip: sprites of either rotation style and any heading.             *)
(***************************************************************************)
Headings == {89, 90, 91, 269, 270, 271, 450, 540, -90, -180}

NextFlip ==
    \/ Start(0, 0)
    \/ Tick
    \/ CreateSprite(600, 450, <<"koding.png">>)
    \/ \E i \in 1..MaxSprites, d \in Headings : SetDirection(i, d)
    \/ \E i \in 1..MaxSprites, style \in {"free", "flipped"} : SetRotationStyle(i, style)

SpecFlip == Init /\ [][NextFlip]_vars

(***************************************************************************)
(* SpecSize: setScale and setSize in any order.                            *)
(***************************************************************************)
ScaleFactors == { [n |-> 1, d |-> 2], [n |-> 1, d |-> 1], [n |-> 2, d |-> 1] }

Sizes == { <<100, 50>>, <<0, 0>>, <<30, 30>> }

NextSize ==
    \/ Start(0, 0)
    \/ Tick
    \/ CreateSprite(600, 450, <<"koding.png">>)
    \/ \E i \in 1..MaxSprites, f \in ScaleFactors : SetScale(i, f)
    \/ \E i \in 1..MaxSprites, sz \in Sizes : SetSize(i, sz[1], sz[2])

SpecSize == Init /\ [][NextSize]_vars

(***************************************************************************)
(* SpecTouch: sprites at any of a few points, of any of a few radii.       *)
(***************************************************************************)
Points == { <<0, 0>>, <<48, 64>>, <<30, 40>>, <<79, 0>>, <<80, 0>>, <<81, 0>> }

Radii == {0, 10, 40}

NextTouch ==
    \/ \E p \in Points : CreateSprite(p[1], p[2], <<"koding.png">>)
    \/ \E i \in 1..MaxSprites, p \in Points : MoveTo(i, p[1], p[2])
    \/ \E i \in 1..MaxSprites, r \in Radii : SetHitRadius(i, r)
    \/ \E a, b \in 1..MaxSprites : Touched(a, b)

SpecTouch == Init /\ [][NextTouch]_vars

(***************************************************************************)
(* SpecInput: input boxes created, moved and resized before and after the  *)
(* canvas exists, and a canvas that moves on the screen between frames.    *)
(***************************************************************************)
CanvasOrigins == { <<0, 0>>, <<40, 10>> }

BoxCentres == { <<600, 720>>, <<100, 50>> }

BoxSizes == { <<400, 32>>, <<200, 28>> }

NextInput ==
    \/ \E o \in CanvasOrigins : Start(o[1], o[2])
    \/ Tick
    \/ \E o \in CanvasOrigins : MoveCanvas(o[1], o[2])
    \/ \E c \in BoxCentres, z \in BoxSizes : CreateInputBox(c[1], c[2], z[1], z[2], 0)
    \/ \E i \in 1..MaxInputBoxes, c \in BoxCentres : MoveInputBox(i, c[1], c[2])
    \/ \E i \in 1..MaxInputBoxes, z \in BoxSizes : ResizeInputBox(i, z[1], z[2])

SpecInput == Init /\ [][NextInput]_vars

(***************************************************************************)
(* SpecHeading: the demo's sketch.  The script creates one sprite, may set *)
(* its heading and registers the spinning callback before the page has     *)
(* loaded; from then on frames run, up to MaxTicks of them, and the script  *)
(* calls the sprite's methods in between.                                  *)
(***************************************************************************)
StartHeadings == {-90, 0}

NextHeading ==
    \/ Len(sprites) = 0 /\ CreateSprite(0, 0, <<"koding.png">>)
    \/ ~sketchInstance.setupDone /\ \E d \in StartHeadings : SetDirection(1, d)
    \/ ~sketchInstance.setupDone /\ Len(sprites) = 1 /\ Forever("spin")
    \/ Len(sprites) = 1 /\ Truthy(gameLoop) /\ Start(0, 0)
    \/ TickUpTo(MaxTicks)
    \/ \E style \in {"free", "flipped"} : SetRotationStyle(1, style)
    \/ Len(sprites) = 1 /\ sprites[1].x = 0 /\ sprites[1].y = 0 /\ StepForward(1, 10)
    \/ MoveTo(1, 0, 0)
    \/ SetScale(1, [n |-> 2, d |-> 1])
    \/ SetSize(1, 30, 30)
    \/ Touched(1, 1)

SpecHeading == Init /\ [][NextHeading]_vars

(***************************************************************************)
(* SpecCallback: callbacks that create entities and change the entities    *)
(* there are, registered before or between frames.                         *)
(***************************************************************************)
MutatingCallbacks == {"spawn", "populate", "restyle", "hide"}

NextCallback ==
    \/ Start(0, 0)
    \/ Tick
    \/ \E n \in MutatingCallbacks : Forever(n)
    \/ CreateSprite(0, 0, <<"koding.png", "walk.png">>)
    \/ CreateTextBox(100, 50, "")
    \/ CreateInputBox(100, 50, 200, 28, 0)

SpecCallback == Init /\ [][NextCallback]_vars

(***************************************************************************)
(* SpecKeys: key-down and key-up events in any order.                      *)
(***************************************************************************)
NextKeys ==
    \/ \E c \in KeyCodes : keyPressed(c)
    \/ \E c \in KeyCodes : keyReleased(c)

SpecKeys == Init /\ [][NextKeys]_vars

(***************************************************************************)
(* What the claims read off a state.                                       *)
(***************************************************************************)
\* A frame ran in this step.
FrameRan == sketchInstance'.frameCount # sketchInstance.frameCount

EntriesOf(log, kind) == SelectSeq(log, LAMBDA e : e.op = kind)

HasCallback(log) == \E i \in 1..Len(log) : log[i].op = "callback"

\* The place of a call in the order the claim gives.
Phase(op) ==
    CASE op = "clear" -> 0 [] op = "background" -> 1 [] op = "callback" -> 2
      [] op = "sprite" -> 3 [] op = "text" -> 4 [] op = "input" -> 5

C2_ImagePaths ==
    { Str(<<"a", ".", "p", "n", "g">>), Str(<<"b", ".", "J", "P", "G">>),
      Str(<<"c", ".", "j", "p", "e", "g">>), Str(<<"d", ".", "W", "e", "b", "P">>) }

\* C2: at most one of backdrop image and solid colour is set, and they are as
\* the last setBackground call left them: an image path sets the image and
\* clears the colour, any other value sets the colour and clears the image.
C2_BackgroundVariant ==
    /\ ~(Truthy(backdropImage) /\ bgColor.t # "null")
    /\ hist.background # NoCall =>
          IF hist.background \in C2_ImagePaths
          THEN /\ Truthy(backdropImage)
               /\ backdropImage.src = hist.background.s
               /\ bgColor = JsNull
          ELSE /\ bgColor = hist.background
               /\ backdropImage = JsNull

\* An upper-case image path was the last value set, and a frame drew it.
C2_Witness ==
    /\ hist.background = Str(<<"b", ".", "J", "P", "G">>)
    /\ Truthy(backdropImage)
    /\ Len(frameLog) >= 2
    /\ frameLog[2].kind = "image"

\* C3: a frame clears, draws the background the state asks for (image, else
\* colour, else the default), invokes the callback if one is registered,
\* then draws every sprite, then every text box, then syncs every input box.
C3_FrameOrder ==
    [][FrameRan =>
        LET log == frameLog'
        IN  /\ Len(log) >= 2
            /\ log[1].op = "clear"
            /\ log[2].op = "background"
            /\ log[2].kind = IF Truthy(backdropImage) THEN "image"
                              ELSE IF bgColor # JsNull THEN "color" ELSE "default"
            /\ log[2].kind = "image" => log[2].arg = backdropImage
            /\ log[2].kind = "color" => log[2].arg = bgColor
            /\ \A i, j \in 1..Len(log) : i < j => Phase(log[i].op) <= Phase(log[j].op)
            /\ Len(EntriesOf(log, "clear")) = 1
            /\ Len(EntriesOf(log, "background")) = 1
            /\ Len(EntriesOf(log, "callback")) = IF Truthy(gameLoop) THEN 1 ELSE 0
            /\ Len(EntriesOf(log, "sprite")) = Len(sprites')
            /\ Len(EntriesOf(log, "text")) = Len(textBoxes')
            /\ Len(EntriesOf(log, "input")) = Len(inputBoxes')
      ]_vars

\* A frame that invoked a callback which created a sprite, and drew sprites,
\* text boxes and input boxes.
C3_Witness ==
    /\ Len(frameLog) >= 6
    /\ frameLog[3].op = "callback"
    /\ frameLog[3].fn = Fn("spawn")
    /\ Len(EntriesOf(frameLog, "sprite")) = MaxSprites
    /\ Len(EntriesOf(frameLog, "text")) >= 1
    /\ Len(EntriesOf(frameLog, "input")) >= 1

\* C5: a frame invokes exactly the function of the last forever call, once,
\* and nothing when forever was never called; the slot holds that function.
C5_OnlyLatestCallback ==
    [][ /\ gameLoop' = hist'.registered
        /\ FrameRan =>
              LET called == EntriesOf(frameLog', "callback")
              IN  IF Truthy(hist.registered)
                  THEN Len(called) = 1 /\ called[1].fn = hist.registered
                  ELSE called = << >>
      ]_vars

\* A frame after the first invoked a callback that replaced itself.
C5_Witness ==
    /\ sketchInstance.frameCount >= 2
    /\ HasCallback(frameLog)
    /\ EntriesOf(frameLog, "callback")[1].fn = Fn("swap")
    /\ gameLoop = Fn("spin")

\* entries visits every entity of registry once, in ascending layer (the layer
\* it has now), entities of equal layer in creation order.
LayerOrdered(entries, registry) ==
    /\ Len(entries) = Len(registry)
    /\ \A i \in 1..Len(entries) : entries[i].layer = registry[entries[i].id].layer
    /\ \A i, j \in 1..Len(entries) :
          i < j => \/ entries[i].layer < entries[j].layer
                   \/ /\ entries[i].layer = entries[j].layer
                      /\ entries[i].id < entries[j].id

\* C4: a frame processes each registry in ascending layer, entities of equal
\* layer in creation order, every entity once; and no step reorders a
\* registry: an entity's place in it stays its place in creation order.
C4_LayerOrderStable ==
    /\ \A i \in 1..Len(sprites) : sprites[i].id = i
    /\ \A i \in 1..Len(textBoxes) : textBoxes[i].id = i
    /\ \A i \in 1..Len(inputBoxes) : inputBoxes[i].id = i
    /\ frameLog # << >> =>
          /\ LayerOrdered(EntriesOf(frameLog, "sprite"), sprites)
          /\ LayerOrdered(EntriesOf(frameLog, "text"), textBoxes)
          /\ LayerOrdered(EntriesOf(frameLog, "input"), inputBoxes)

\* A frame drew the second sprite before the first (lower layer), two text
\* boxes of equal layer, and two input boxes of equal layer.
C4_Witness ==
    /\ Len(sprites) = 2 /\ Len(textBoxes) = 2 /\ Len(inputBoxes) = 2
    /\ frameLog # << >>
    /\ EntriesOf(frameLog, "sprite")[1].id = 2
    /\ textBoxes[1].layer = textBoxes[2].layer
    /\ inputBoxes[1].layer = -1 /\ inputBoxes[2].layer = -1
    /\ sketchInstance.frameCount >= 2

\* C6 as stated: for a visible sprite with N >= 1 costumes and any integer
\* costumeId, the frame paints a costume of the sprite, and costumeId = N
\* paints the costume that costumeId = 0 paints.
C6_CostumeIndexWraps ==
    frameLog # << >> =>
        \A k \in 1..Len(frameLog) :
            LET e == frameLog[k]
            IN  e.op = "sprite" =>
                  LET s == sprites[e.id]
                      N == Len(s.images)
                  IN  (~s.hidden /\ N >= 1) =>
                          /\ e.painted
                          /\ e.costume \in 1..N
                          /\ s.costumeId = N => e.costume = 1

\* C7: in flipped style a frame mirrors the sprite iff its heading, brought
\* into [0, 360), is strictly between 90 and 270, and never rotates; in free
\* style it rotates by the heading and never mirrors.
C7_FlipRule ==
    frameLog # << >> =>
        \A k \in 1..Len(frameLog) :
            LET e == frameLog[k]
            IN  (e.op = "sprite" /\ e.painted) =>
                  LET s == sprites[e.id]
                      d == s.direction % 360
                  IN  /\ s.rotationStyle = "flipped" =>
                            /\ e.rotate = NoRotate
                            /\ e.mirror <=> (d > 90 /\ d < 270)
                      /\ s.rotationStyle = "free" =>
                            /\ e.rotate = Num(s.direction)
                            /\ ~e.mirror

\* A frame mirrored a flipped sprite of heading -180 and did not mirror one
\* of heading 270.
C7_Witness ==
    /\ Len(sprites) = 2
    /\ Len(frameLog) = 4
    /\ sprites[1].rotationStyle = "flipped" /\ sprites[1].direction = -180
    /\ sprites[2].rotationStyle = "flipped" /\ sprites[2].direction = 270
    /\ frameLog[3].mirror /\ ~frameLog[4].mirror

DistSq(a, b) == (a.x - b.x) * (a.x - b.x) + (a.y - b.y) * (a.y - b.y)

\* C8: a.touched(b) is true iff the distance between the centres is strictly
\* less than the sum of the radii, and the call changes no sprite.
C8_TouchedOpenBoundary ==
    [][touchResult' # NoCall =>
          LET a == sprites'[touchResult'.a]
              b == sprites'[touchResult'.b]
              R == a.hitRadius + b.hitRadius
          IN  /\ touchResult'.hit <=> (R > 0 /\ DistSq(a, b) < R * R)
              /\ sprites' = sprites
      ]_vars

\* touched returned false for two sprites whose distance is the sum of
\* their (different) radii.
C8_Witness ==
    /\ touchResult # NoCall
    /\ touchResult.a # touchResult.b
    /\ ~touchResult.hit
    /\ sprites[touchResult.a].hitRadius = 10
    /\ sprites[touchResult.b].hitRadius = 40
    /\ DistSq(sprites[touchResult.a], sprites[touchResult.b]) = 50 * 50

\* C9: what a.touched(b) returned is what b.touched(a) returns.
C9_TouchedSymmetric ==
    touchResult # NoCall =>
        touchResult.hit = touched(sprites[touchResult.b], sprites[touchResult.a])

\* touched returned true for two sprites of different radii, the distance
\* being more than twice the smaller radius.
C9_Witness ==
    /\ touchResult # NoCall
    /\ touchResult.hit
    /\ sprites[touchResult.a].hitRadius = 10
    /\ sprites[touchResult.b].hitRadius = 40
    /\ DistSq(sprites[touchResult.a], sprites[touchResult.b]) > 20 * 20

\* C10: a frame paints a sprite at the size of its last setSize call, whatever
\* its scale; a sprite setSize was never called on, at its image's size
\* times its scale.
C10_SizeOverridesScale ==
    frameLog # << >> =>
        \A k \in 1..Len(frameLog) :
            LET e == frameLog[k]
            IN  (e.op = "sprite" /\ e.painted) =>
                  LET s   == sprites[e.id]
                      img == s.images[e.costume]
                      set == hist.sizes[e.id]
                  IN  IF set = NoCall
                      THEN /\ e.dw * s.scale.d = img.width * s.scale.n
                           /\ e.dh * s.scale.d = img.height * s.scale.n
                      ELSE /\ e.dw = set.w
                           /\ e.dh = set.h

\* A frame painted a sprite of scale 1/2 at 100 x 50, and one of scale 1/2
\* without explicit size at half its image's size.
C10_Witness ==
    /\ Len(sprites) = 2
    /\ Len(frameLog) = 4
    /\ sprites[1].scale = [n |-> 1, d |-> 2] /\ hist.sizes[1] = [w |-> 100, h |-> 50]
    /\ sprites[2].scale = [n |-> 1, d |-> 2] /\ hist.sizes[2] = NoCall
    /\ frameLog[3].dw = 100 /\ frameLog[3].dh = 50
    /\ frameLog[4].dw = 60 /\ frameLog[4].dh = 40

\* The element of ib is where centre (cx, cy) and size (w, h) put it on a
\* canvas whose bounding rectangle starts at (canvas.left, canvas.top).
Placed(ib, cx, cy, w, h, canvas) ==
    /\ ib.el.left.t = "px" /\ ib.el.top.t = "px"
    /\ 2 * ib.el.left.n = 2 * canvas.left + 2 * cx - w
    /\ 2 * ib.el.top.n = 2 * canvas.top + 2 * cy - h
    /\ ib.el.width = Px(w)
    /\ ib.el.height = Px(h)

LogicalGeometry(ib) == <<ib.cx, ib.cy, ib.w, ib.h>>

\* C11: while the canvas exists, after a frame every input box, and after a
\* moveTo or resize the box moved or resized, is placed at
\* left = rect.left + cx - w/2, top = rect.top + cy - h/2, width = w,
\* height = h for the canvas's current rectangle.
C11_PlacementFollowsCanvas ==
    [][Truthy(sketchInstance'.canvas) =>
          /\ FrameRan =>
                \A i \in 1..Len(inputBoxes') :
                    LET ib == inputBoxes'[i]
                    IN  Placed(ib, ib.cx, ib.cy, ib.w, ib.h, sketchInstance'.canvas)
          /\ \A i \in 1..Len(inputBoxes) :
                LogicalGeometry(inputBoxes'[i]) # LogicalGeometry(inputBoxes[i]) =>
                    LET ib == inputBoxes'[i]
                    IN  Placed(ib, ib.cx, ib.cy, ib.w, ib.h, sketchInstance'.canvas)
      ]_vars

\* A frame after the first, on a canvas at the screen's origin, put the box
\* (600, 720, 400, 32) at left 400, top 704, and a second box elsewhere.
C11_Witness ==
    /\ sketchInstance.frameCount >= 2
    /\ frameLog # << >>
    /\ sketchInstance.canvas.left = 0 /\ sketchInstance.canvas.top = 0
    /\ Len(inputBoxes) = 2
    /\ LogicalGeometry(inputBoxes[1]) = <<600, 720, 400, 32>>
    /\ inputBoxes[1].el = [left |-> Px(400), top |-> Px(704),
                           width |-> Px(400), height |-> Px(32)]
    /\ LogicalGeometry(inputBoxes[2]) = <<100, 50, 200, 28>>

NotAligned == [left |-> Unset, top |-> Unset, width |-> Unset, height |-> Unset]

\* C12: while there is no canvas, constructing, moving or resizing an input
\* box leaves the style of its element as it was and still stores the centre
\* and size passed; the frame in which the canvas appears places every box by
\* the centre and size passed last.
C12_SkippedUntilCanvas ==
    [][/\ ~Truthy(sketchInstance'.canvas) =>
            \A i \in 1..Len(inputBoxes') :
                /\ inputBoxes'[i].el = IF i <= Len(inputBoxes) THEN inputBoxes[i].el
                                       ELSE NotAligned
                /\ LogicalGeometry(inputBoxes'[i]) =
                       <<hist'.geom[i].cx, hist'.geom[i].cy, hist'.geom[i].w, hist'.geom[i].h>>
       /\ (~Truthy(sketchInstance.canvas) /\ Truthy(sketchInstance'.canvas)) =>
            /\ FrameRan
            /\ \A i \in 1..Len(inputBoxes') :
                  Placed(inputBoxes'[i], hist.geom[i].cx, hist.geom[i].cy,
                         hist.geom[i].w, hist.geom[i].h, sketchInstance'.canvas)
      ]_vars

\* A box constructed and then moved or resized before the canvas existed has
\* been placed by the first frame, on a canvas away from the screen's origin.
C12_Witness ==
    /\ sketchInstance.frameCount = 1
    /\ frameLog # << >>
    /\ sketchInstance.canvas.left = 40 /\ sketchInstance.canvas.top = 10
    /\ Len(inputBoxes) >= 1
    /\ hist.geom[1].early
    /\ LogicalGeometry(inputBoxes[1]) = <<600, 720, 400, 32>>
    /\ inputBoxes[1].el = [left |-> Px(440), top |-> Px(714),
                           width |-> Px(400), height |-> Px(32)]

\* The key each flag stands for.
KeyOfFlag ==
    [left |-> LEFT_ARROW, right |-> RIGHT_ARROW, up |-> UP_ARROW,
     down |-> DOWN_ARROW, space |-> SPACE]

\* C13: keyState is five booleans, left, right, up, down and space, and each
\* is TRUE exactly when the last event for its key was a key-down (FALSE when
\* there was none); events for other keys and for the other four keys do not
\* count.
C13_FlagIsLastEvent ==
    /\ DOMAIN keyState = {"left", "right", "up", "down", "space"}
    /\ \A f \in DOMAIN keyState :
          /\ keyState[f] \in BOOLEAN
          /\ keyState[f] = (hist.lastKey[KeyOfFlag[f]] = "down")

\* Left is held, right was pressed and released, space was never touched,
\* and other keys have gone down and up.
C13_Witness ==
    /\ keyState = [left |-> TRUE, right |-> FALSE, up |-> FALSE,
                   down |-> FALSE, space |-> FALSE]
    /\ hist.lastKey[LEFT_ARROW] = "down"
    /\ hist.lastKey[RIGHT_ARROW] = "up"
    /\ hist.lastKey[SPACE] = "none"
    /\ hist.lastKey[13] = "down"
    /\ hist.lastKey[65] = "up"

\* C14: the heading of a sprite is the value it was given last (90 by the
\* constructor) plus 1 for every frame in which the spinning callback has run
\* since; nothing brings it back into [0, 360), and no frame, stepForward,
\* moveTo, setScale, setSize or touched changes it.
C14_HeadingNotNormalised ==
    \A i \in 1..Len(sprites) :
        sprites[i].direction = hist.heading[i].base + hist.heading[i].ticks

\* 360 frames after the script left the heading at 90 it is 450, the same
\* heading modulo 360, on a flipped sprite that has stepped forward, been
\* scaled and been given a size.
C14_Witness ==
    /\ Len(sprites) = 1
    /\ hist.heading[1] = [base |-> 90, ticks |-> 360]
    /\ sketchInstance.frameCount = 360
    /\ sprites[1].direction = 450
    /\ sprites[1].direction % 360 = 90
    /\ sprites[1].rotationStyle = "flipped"
    /\ sprites[1].y = 10
    /\ sprites[1].scale = [n |-> 2, d |-> 1]
    /\ sprites[1].w = Num(30)

\* No entity has left the registry and none has changed its place in it.
Grown(before, after) ==
    /\ Len(after) >= Len(before)
    /\ \A i \in 1..Len(before) : after[i].id = before[i].id

\* C15: no step removes an entity from a registry; and a frame processes
\* every entity its registries hold once the callback has returned, those the
\* callback created included, each once, in the order of the layers the
\* callback left, a sprite at the position and with the costume the callback
\* left, and paints exactly those the callback left not hidden.
C15_CallbackMutationsSeen ==
    [][/\ Grown(sprites, sprites')
       /\ Grown(textBoxes, textBoxes')
       /\ Grown(inputBoxes, inputBoxes')
       /\ FrameRan =>
            LET log == frameLog'
            IN  /\ LayerOrdered(EntriesOf(log, "sprite"), sprites')
                /\ LayerOrdered(EntriesOf(log, "text"), textBoxes')
                /\ LayerOrdered(EntriesOf(log, "input"), inputBoxes')
                /\ \A k \in 1..Len(log) :
                      /\ log[k].op = "sprite" =>
                            LET s == sprites'[log[k].id]
                            IN  /\ log[k].x = s.x /\ log[k].y = s.y
                                /\ log[k].painted = ~s.hidden
                                /\ log[k].painted =>
                                      log[k].costume = (s.costumeId % Len(s.images)) + 1
                      /\ log[k].op = "text" =>
                            log[k].painted = ~textBoxes'[log[k].id].hidden
                /\ \A i \in 1..Len(inputBoxes') :
                      LET ib == inputBoxes'[i]
                      IN  Placed(ib, hist'.geom[i].cx, hist'.geom[i].cy,
                                 hist'.geom[i].w, hist'.geom[i].h, sketchInstance'.canvas)
      ]_vars

\* The callback of the frame that just ran moved the first sprite to layer 1,
\* to the right and to its second costume, so that the frame drew the second
\* sprite first; both text boxes and both input boxes were processed.
C15_Witness ==
    /\ Len(sprites) = 2 /\ Len(textBoxes) = 2 /\ Len(inputBoxes) = 2
    /\ HasCallback(frameLog)
    /\ EntriesOf(frameLog, "callback")[1].fn = Fn("restyle")
    /\ sprites[1].layer = 1 /\ sprites[1].x = 10 /\ sprites[1].costumeId = 1
    /\ EntriesOf(frameLog, "sprite")[1].id = 2
    /\ EntriesOf(frameLog, "sprite")[2] =
          [EntriesOf(frameLog, "sprite")[2] EXCEPT
              !.id = 1, !.layer = 1, !.x = 10, !.costume = 2, !.painted = TRUE]
    /\ EntriesOf(frameLog, "text")[2].id = 1
    /\ EntriesOf(frameLog, "input")[2].id = 1

=============================================================================
